---- MODULE Spec2Model ----
(***************************************************************************)
(* Model of mailgun-rs (src/src/lib.rs): EmailAddress rendering,           *)
(* Message::params, Mailgun::new / set_zone / send.                        *)
(*                                                                         *)
(* A Rust String is a sequence of one-character strings, so that           *)
(* formatting, joining, escaping and JSON encoding are computed character  *)
(* by character.  Option<T> is a sequence of length 0 (None) or 1 (Some).  *)
(* A HashMap<String, String> is a function whose domain is its key set;    *)
(* its iteration order is not fixed by the program.                        *)
(***************************************************************************)
EXTENDS Integers, Sequences, FiniteSets, TLC

VARIABLES client, history, pc, sender, msg, msgParams, params, url, auth,
          attempts, statusChecked, status, body, result

vars == <<client, history, pc, sender, msg, msgParams, params, url, auth,
          attempts, statusChecked, status, body, result>>

\* ------------------------------------------------------------------ bounds
MaxRcpt == 2
MaxVars == 2
MaxSetZone == 2
MaxBody == 2

\* ----------------------------------------------------------------- strings
None == <<>>
Some(x) == <<x>>

DQ == "\""
BS == "\\"

\* [String]::join(sep)
RECURSIVE Join(_, _)
Join(ss, sep) ==
    IF ss = <<>> THEN <<>>
    ELSE IF Len(ss) = 1 THEN ss[1]
    ELSE ss[1] \o sep \o Join(Tail(ss), sep)

\* all sequences over S of length at most n
RECURSIVE SeqsUpTo(_, _)
SeqsUpTo(S, n) ==
    IF n = 0 THEN {<<>>}
    ELSE LET shorter == SeqsUpTo(S, n - 1)
         IN  shorter \cup {Append(s, x) : s \in shorter, x \in S}

\* all orders in which the elements of a finite set can be visited
RECURSIVE Orders(_)
Orders(S) ==
    IF S = {} THEN {<<>>}
    ELSE UNION {{<<x>> \o o : o \in Orders(S \ {x})} : x \in S}

\* -------------------------------------------------------------- EmailAddress
address(a) == [name |-> None, address |-> a]

name_address(n, a) == [name |-> Some(n), address |-> a]

\* impl fmt::Display for EmailAddress
to_string(e) ==
    IF e.name # None
    THEN e.name[1] \o <<" ", "<">> \o e.address \o <<">">>
    ELSE e.address

\* ------------------------------------------------------------------- HashMap
EmptyMap == <<>>

insert(m, k, v) == [x \in (DOMAIN m) \cup {k} |-> IF x = k THEN v ELSE m[x]]

\* ---------------------------------------------------------------- serde_json
\* a JSON string literal: quoted, with quote and backslash escaped
RECURSIVE Escape(_)
Escape(s) ==
    IF s = <<>> THEN <<>>
    ELSE (IF Head(s) = DQ \/ Head(s) = BS THEN <<BS, Head(s)>> ELSE <<Head(s)>>)
         \o Escape(Tail(s))

\* a string literal written without escaping its characters
JsonString_unescaped(s) == <<DQ>> \o s \o <<DQ>>

JsonString(s) == <<DQ>> \o Escape(s) \o <<DQ>>

\* serde_json::to_string(&HashMap<String, String>) with the entries visited
\* in the order `order`
JsonStringMap(m, order) ==
    <<"{">>
    \o Join([i \in 1..Len(order) |->
                JsonString(order[i]) \o <<":">> \o JsonString(m[order[i]])], <<",">>)
    \o <<"}">>

\* every text serde_json::to_string can produce for the map m
to_string_vars(m) == {JsonStringMap(m, o) : o \in Orders(DOMAIN m)}

\* serde_json::to_string(&HashMap<String, HashMap<String, String>>): `inner`
\* gives the text chosen for each inner map
JsonNestedMap(order, inner) ==
    <<"{">>
    \o Join([i \in 1..Len(order) |->
                JsonString(order[i]) \o <<":">> \o inner[order[i]]], <<",">>)
    \o <<"}">>

to_string_recipient_vars(m) ==
    LET texts == UNION {to_string_vars(m[k]) : k \in DOMAIN m}
    IN  {JsonNestedMap(o, inner) :
            o \in Orders(DOMAIN m),
            inner \in {f \in [DOMAIN m -> texts] :
                          \A k \in DOMAIN m : f[k] \in to_string_vars(m[k])}}

\* ------------------------------------------------------------------- Message
\* the addresses joined with a comma and a space
add_recipients_spaced(field, addresses, p) ==
    IF addresses # <<>>
    THEN insert(p, field,
                Join([i \in 1..Len(addresses) |-> to_string(addresses[i])], <<",", " ">>))
    ELSE p

\* Message::add_recipients
add_recipients(field, addresses, p) ==
    IF addresses # <<>>
    THEN insert(p, field,
                Join([i \in 1..Len(addresses) |-> to_string(addresses[i])], <<",">>))
    ELSE p

\* the variable headers written whether or not a template is named
add_template_unguarded(m, p, tv, rv) ==
    LET p1 == IF m.template # <<>> THEN insert(p, "template", m.template) ELSE p
        p2 == IF DOMAIN m.template_vars # {}
              THEN insert(p1, "h:X-Mailgun-Variables", tv)
              ELSE p1
    IN  IF DOMAIN m.recipient_vars # {}
        THEN insert(p2, "h:X-Mailgun-Recipient-Variables", rv)
        ELSE p2

\* the template block of Message::params, lines 84-99; tv and rv are the
\* texts serde_json::to_string returned for the two maps
add_template(m, p, tv, rv) ==
    IF m.template # <<>>
    THEN LET p1 == insert(p, "template", m.template)
             p2 == IF DOMAIN m.template_vars # {}
                   THEN insert(p1, "h:X-Mailgun-Variables", tv)
                   ELSE p1
             p3 == IF DOMAIN m.recipient_vars # {}
                   THEN insert(p2, "h:X-Mailgun-Recipient-Variables", rv)
                   ELSE p2
         IN  p3
    ELSE p

\* subject, text and html left out when empty
params_with_skip_empty(m, tv, rv) ==
    LET p1 == add_recipients("to", m.to, EmptyMap)
        p2 == add_recipients("cc", m.cc, p1)
        p3 == add_recipients("bcc", m.bcc, p2)
        p4 == IF m.subject # <<>> THEN insert(p3, "subject", m.subject) ELSE p3
        p5 == IF m.text # <<>> THEN insert(p4, "text", m.text) ELSE p4
        p6 == IF m.html # <<>> THEN insert(p5, "html", m.html) ELSE p5
    IN  add_template(m, p6, tv, rv)

\* Message::params with the two serialisations fixed
params_with(m, tv, rv) ==
    LET p1 == add_recipients("to", m.to, EmptyMap)
        p2 == add_recipients("cc", m.cc, p1)
        p3 == add_recipients("bcc", m.bcc, p2)
        p4 == insert(p3, "subject", m.subject)
        p5 == insert(p4, "text", m.text)
        p6 == insert(p5, "html", m.html)
    IN  add_template(m, p6, tv, rv)

\* every parameter map Message::params can return for m
message_params(m) ==
    {params_with(m, tv, rv) :
        tv \in to_string_vars(m.template_vars),
        rv \in to_string_recipient_vars(m.recipient_vars)}

\* ---------------------------------------------------------- JSON text reader
\* serde_json's reader.  A value is [t, v]: t = "str" (v the characters),
\* "num" (v the digits), "arr" (v the elements) or "obj" (v the members
\* [k, val] in text order, duplicates kept).
Digits == {"0", "1", "2", "3", "4", "5", "6", "7", "8", "9"}

Fail == [ok |-> FALSE, val |-> <<>>, rest |-> <<>>]

Got(v, rest) == [ok |-> TRUE, val |-> v, rest |-> rest]

RECURSIVE SkipWs(_)
SkipWs(s) == IF s # <<>> /\ Head(s) = " " THEN SkipWs(Tail(s)) ELSE s

\* the characters of a string literal after its opening quote
RECURSIVE ParseStringBody(_, _)
ParseStringBody(s, acc) ==
    IF s = <<>> THEN Fail
    ELSE IF Head(s) = DQ THEN Got([t |-> "str", v |-> acc], Tail(s))
    ELSE IF Head(s) = BS
         THEN IF Len(s) >= 2 /\ s[2] \in {DQ, BS}
              THEN ParseStringBody(Tail(Tail(s)), Append(acc, s[2]))
              ELSE Fail
    ELSE ParseStringBody(Tail(s), Append(acc, Head(s)))

RECURSIVE ParseDigits(_, _)
ParseDigits(s, acc) ==
    IF s # <<>> /\ Head(s) \in Digits
    THEN ParseDigits(Tail(s), Append(acc, Head(s)))
    ELSE Got([t |-> "num", v |-> acc], s)

RECURSIVE ParseValue(_)
RECURSIVE ParseElements(_, _)
RECURSIVE ParseMembers(_, _)

\* the elements of an array after "[" or after a ","
ParseElements(s, acc) ==
    LET e == ParseValue(s)
        r == SkipWs(e.rest)
    IN  IF ~e.ok \/ r = <<>> THEN Fail
        ELSE IF Head(r) = "," THEN ParseElements(Tail(r), Append(acc, e.val))
        ELSE IF Head(r) = "]"
             THEN Got([t |-> "arr", v |-> Append(acc, e.val)], Tail(r))
        ELSE Fail

\* the members of an object after "{" or after a ","
ParseMembers(s, acc) ==
    LET s1 == SkipWs(s)
        k  == IF s1 # <<>> /\ Head(s1) = DQ THEN ParseStringBody(Tail(s1), <<>>) ELSE Fail
        s2 == SkipWs(k.rest)
        e  == IF k.ok /\ s2 # <<>> /\ Head(s2) = ":" THEN ParseValue(Tail(s2)) ELSE Fail
        r  == SkipWs(e.rest)
        m  == [k |-> k.val.v, val |-> e.val]
    IN  IF ~e.ok \/ r = <<>> THEN Fail
        ELSE IF Head(r) = "," THEN ParseMembers(Tail(r), Append(acc, m))
        ELSE IF Head(r) = "}"
             THEN Got([t |-> "obj", v |-> Append(acc, m)], Tail(r))
        ELSE Fail

ParseValue(s) ==
    LET s1 == SkipWs(s)
    IN  IF s1 = <<>> THEN Fail
        ELSE IF Head(s1) = DQ THEN ParseStringBody(Tail(s1), <<>>)
        ELSE IF Head(s1) \in Digits THEN ParseDigits(s1, <<>>)
        ELSE IF Head(s1) = "["
             THEN LET s2 == SkipWs(Tail(s1))
                  IN  IF s2 # <<>> /\ Head(s2) = "]"
                      THEN Got([t |-> "arr", v |-> <<>>], Tail(s2))
                      ELSE ParseElements(s2, <<>>)
        ELSE IF Head(s1) = "{"
             THEN LET s2 == SkipWs(Tail(s1))
                  IN  IF s2 # <<>> /\ Head(s2) = "}"
                      THEN Got([t |-> "obj", v |-> <<>>], Tail(s2))
                      ELSE ParseMembers(s2, <<>>)
        ELSE Fail

\* serde_json::from_slice: one value, then only whitespace
from_slice(s) ==
    LET r == ParseValue(s)
    IN  IF r.ok /\ SkipWs(r.rest) = <<>> THEN r ELSE Fail

\* -------------------------------------------------------------- SendResponse
\* the members of an object value whose key is k
Members(v, k) == {i \in 1..Len(v) : v[i].k = k}

K_message == <<"m", "e", "s", "s", "a", "g", "e">>
K_id == <<"i", "d">>

Ok(m, i) == [tag |-> "Ok", message |-> m, id |-> i, source |-> "", text |-> <<>>]

Err(src, txt) == [tag |-> "Err", message |-> <<>>, id |-> <<>>, source |-> src, text |-> txt]

\* the Display text of a reqwest::Error; its content is reqwest's and is not
\* built from the response body
ReqwestText == <<"reqwest::Error">>

\* #[derive(Deserialize)] struct SendResponse { message: String, id: String }
\* read by serde_json: from a JSON object (unknown keys ignored, a repeated
\* known key is an error, a missing one is an error) or from a JSON array
\* holding the fields in declaration order
deserialize_SendResponse(text) ==
    LET r == from_slice(text)
        v == r.val.v
    IN  IF ~r.ok THEN Err("decode", ReqwestText)
        ELSE IF r.val.t = "obj"
             THEN LET ms == Members(v, K_message)
                      is == Members(v, K_id)
                  IN  IF /\ Cardinality(ms) = 1
                         /\ Cardinality(is) = 1
                         /\ \A i \in ms \cup is : v[i].val.t = "str"
                      THEN Ok(v[CHOOSE i \in ms : TRUE].val.v,
                              v[CHOOSE i \in is : TRUE].val.v)
                      ELSE Err("decode", ReqwestText)
        ELSE IF r.val.t = "arr"
             THEN IF Len(v) = 2 /\ v[1].t = "str" /\ v[2].t = "str"
                  THEN Ok(v[1].v, v[2].v)
                  ELSE Err("decode", ReqwestText)
        ELSE Err("decode", ReqwestText)

\* format!("{:?}", s) for a String: quoted, with quote and backslash escaped
RECURSIVE escape_debug(_)
escape_debug(s) ==
    IF s = <<>> THEN <<>>
    ELSE (IF Head(s) = DQ \/ Head(s) = BS THEN <<BS, Head(s)>> ELSE <<Head(s)>>)
         \o escape_debug(Tail(s))

fmt_debug(s) == <<DQ>> \o escape_debug(s) \o <<DQ>>

\* StatusCode::is_success
is_success(st) == st >= 200 /\ st < 300

\* -------------------------------------------------------------------- Mailgun
MAILGUN_API ==
    <<"h", "t", "t", "p", "s", ":", "/", "/", "a", "p", "i", ".", "m", "a", "i", "l",
      "g", "u", "n", ".", "n", "e", "t", "/", "v", "3">>

MESSAGES_ENDPOINT == <<"m", "e", "s", "s", "a", "g", "e", "s">>

\* Mailgun::new
Mailgun_new(domain, api_key) ==
    [domain |-> domain, api_key |-> api_key, zone |-> None, moved |-> FALSE]

\* a zone that is kept once set
set_zone_once(c, zone) == IF c.zone = None THEN [c EXCEPT !.zone = Some(zone)] ELSE c

\* Mailgun::set_zone
set_zone(c, zone) == [c EXCEPT !.zone = Some(zone)]

\* self.zone.unwrap_or(MAILGUN_API.to_string())
root_of(c) == IF c.zone # None THEN c.zone[1] ELSE MAILGUN_API

\* format!("{}/{}/{}", &root, self.domain, MESSAGES_ENDPOINT)
url_of(c) == root_of(c) \o <<"/">> \o c.domain \o <<"/">> \o MESSAGES_ENDPOINT

\* .basic_auth("api", Some(self.api_key))
basic_auth(c) == [username |-> <<"a", "p", "i">>, password |-> Some(c.api_key)]

\* a parameter set rebuilt around the sender
with_from_only(p, s) == insert(EmptyMap, "from", to_string(s))

\* params.insert("from".to_string(), sender.to_string())
with_from(p, s) == insert(p, "from", to_string(s))

\* ------------------------------------------------------------- input sets
A1 == address(<<"a", "@", "x">>)
A2 == name_address(<<"N">>, <<"b", "@", "x">>)
Addresses == {A1, A2}

Texts == {<<>>, <<"s">>}
Templates == {<<>>, <<"t">>}

VarKeys == {<<"a">>, <<DQ>>, <<"b", BS>>}
VarValues == {<<"v">>, <<BS>>}

\* maps with at most n entries from keys K to values V
MapsUpTo(K, V, n) ==
    UNION {[D -> V] : D \in {D \in SUBSET K : Cardinality(D) <= n}}

VarMaps == MapsUpTo(VarKeys, VarValues, MaxVars)

RcptKeys == {<<"a", "@", "x">>, <<"b", "@", "x">>}
InnerMaps == MapsUpTo({<<"a">>}, VarValues, MaxVars)
RcptVarMaps == MapsUpTo(RcptKeys, InnerMaps, MaxVars)

Message(to, cc, bcc, subject, text, html, template, tv, rv) ==
    [to |-> to, cc |-> cc, bcc |-> bcc, subject |-> subject, text |-> text,
     html |-> html, template |-> template, template_vars |-> tv,
     recipient_vars |-> rv]

\* Message::default()
DefaultMessage == Message(<<>>, <<>>, <<>>, <<>>, <<>>, <<>>, <<>>, EmptyMap, EmptyMap)

AddrSeqs == SeqsUpTo(Addresses, MaxRcpt)

\* messages that vary the recipients of the three roles
RcptMessages ==
    {Message(to, cc, bcc, su, <<>>, <<>>, tp, tv, EmptyMap) :
        to \in AddrSeqs, cc \in AddrSeqs, bcc \in AddrSeqs, su \in Texts,
        tp \in Templates, tv \in {EmptyMap, [k \in {<<"a">>} |-> <<"v">>]}}

\* messages that vary the content and the template fields
TemplateMessages ==
    {Message(to, <<>>, <<>>, su, tx, ht, tp, tv, rv) :
        to \in {<<>>, <<A1>>}, su \in Texts, tx \in Texts, ht \in Texts,
        tp \in Templates, tv \in VarMaps, rv \in RcptVarMaps}

ParamMessages == RcptMessages \cup TemplateMessages

\* the messages of src/src/main.rs (send_html, send_template), the default
\* message, and a message with variables but no template
SendMessages ==
    {[DefaultMessage EXCEPT !.to = <<A1>>, !.subject = <<"s">>, !.html = <<"s">>],
     [DefaultMessage EXCEPT !.to = <<A1>>, !.subject = <<"s">>, !.template = <<"t">>,
                            !.template_vars = [k \in VarKeys |-> <<"v">>]],
     DefaultMessage,
     [DefaultMessage EXCEPT !.cc = <<A2, A1>>,
                            !.template_vars = [k \in {<<"a">>} |-> <<BS>>]]}

Senders == {A1, A2}
Domains == {<<"d">>, <<"e", ".", "x">>}
ApiKeys == {<<"k">>}
Zones == {<<"e", "u">>, <<"u", "s">>}
Statuses == {200, 299, 300, 400}

\* response bodies: JSON objects and arrays with at most MaxBody members,
\* and texts that are not objects or arrays
BodyKeys == {K_message, K_id, <<"x">>}
BodyValues == {JsonString(<<"Q">>), <<"1">>}
BodyMembers == {JsonString(k) \o <<":">> \o v : k \in BodyKeys, v \in BodyValues}
Bodies ==
    {<<"{">> \o Join(ms, <<",">>) \o <<"}">> : ms \in SeqsUpTo(BodyMembers, MaxBody)}
    \cup {<<"[">> \o Join(es, <<",">>) \o <<"]">> : es \in SeqsUpTo(BodyValues, MaxBody)}
    \cup {<<>>, <<"Q">>, JsonString(<<"Q">>), <<"Q", DQ, BS>>}

\* bodies of non-2xx responses: plain texts, and texts that are JSON
ErrorBodies ==
    {<<>>, <<"Q">>, JsonString(<<"Q">>), <<"Q", DQ, BS>>,
     <<"{">> \o JsonString(K_message) \o <<":">> \o JsonString(<<"Q">>) \o <<",">>
            \o JsonString(K_id) \o <<":">> \o JsonString(<<"Q">>) \o <<"}">>}

\* ------------------------------------------------------------------- state
NoCall ==
    /\ sender = None /\ msg = None /\ msgParams = None /\ params = None
    /\ url = None /\ auth = None /\ attempts = 0 /\ statusChecked = FALSE
    /\ status = None /\ body = None /\ result = None

CallVars == <<sender, msg, msgParams, params, url, auth, attempts, statusChecked,
              status, body, result>>

Init ==
    /\ \E d \in Domains, k \in ApiKeys :
          /\ client = Mailgun_new(d, k)
          /\ history = [domain |-> d, api_key |-> k, zones |-> <<>>]
    /\ pc = "idle"
    /\ NoCall

\* let client = Mailgun::new(domain, key): a fresh client; the locals of a
\* finished call are gone
New(d, k) ==
    /\ pc \in {"idle", "returned"}
    /\ client' = Mailgun_new(d, k)
    /\ history' = [domain |-> d, api_key |-> k, zones |-> <<>>]
    /\ pc' = "idle"
    /\ sender' = None /\ msg' = None /\ msgParams' = None /\ params' = None
    /\ url' = None /\ auth' = None /\ attempts' = 0 /\ statusChecked' = FALSE
    /\ status' = None /\ body' = None /\ result' = None

\* client.set_zone(zone)
SetZone(z) ==
    /\ pc = "idle"
    /\ ~client.moved
    /\ Len(history.zones) < MaxSetZone
    /\ client' = set_zone(client, z)
    /\ history' = [history EXCEPT !.zones = Append(@, z)]
    /\ UNCHANGED <<pc, CallVars>>

\* client.send(&sender, msg) up to the first await, lines 35-46: `self` is
\* taken by value, so the client is moved into the call
Send(s, m) ==
    /\ pc = "idle"
    /\ ~client.moved
    /\ \E p \in message_params(m) :
          /\ msgParams' = Some(p)
          /\ params' = Some(with_from(p, s))
    /\ sender' = Some(s)
    /\ msg' = Some(m)
    /\ url' = Some(url_of(client))
    /\ auth' = Some(basic_auth(client))
    /\ client' = [client EXCEPT !.moved = TRUE]
    /\ pc' = "request"
    /\ UNCHANGED <<history, attempts, statusChecked, status, body, result>>

\* a failed request that is tried again
TransportError_retry ==
    /\ pc = "request"
    /\ attempts < 3
    /\ attempts' = attempts + 1
    /\ pc' = "request"
    /\ UNCHANGED <<client, history, sender, msg, msgParams, params, url, auth,
                   statusChecked, status, body, result>>

\* line 47, `.send().await?` fails: the error is returned
TransportError ==
    /\ pc = "request"
    /\ attempts' = attempts + 1
    /\ result' = Some(Err("transport", ReqwestText))
    /\ pc' = "returned"
    /\ UNCHANGED <<client, history, sender, msg, msgParams, params, url, auth,
                   statusChecked, status, body>>

\* line 47 yields a response head, and line 48 tests its status
Response(st) ==
    /\ pc = "request"
    /\ attempts' = attempts + 1
    /\ status' = Some(st)
    /\ statusChecked' = TRUE
    /\ pc' = IF is_success(st) THEN "json" ELSE "text"
    /\ UNCHANGED <<client, history, sender, msg, msgParams, params, url, auth,
                   body, result>>

\* line 49 or line 52: reading the body fails, and `?` returns the error
BodyError ==
    /\ pc \in {"json", "text"}
    /\ result' = Some(Err("body", ReqwestText))
    /\ pc' = "returned"
    /\ UNCHANGED <<client, history, sender, msg, msgParams, params, url, auth,
                   attempts, statusChecked, status, body>>

\* lines 49-50: res.json().await? reads the body b
JsonBody(b) ==
    /\ pc = "json"
    /\ body' = Some(b)
    /\ result' = Some(deserialize_SendResponse(b))
    /\ pc' = "returned"
    /\ UNCHANGED <<client, history, sender, msg, msgParams, params, url, auth,
                   attempts, statusChecked, status>>

\* lines 52-53: res.text().await? reads the body b
TextBody(b) ==
    /\ pc = "text"
    /\ body' = Some(b)
    /\ result' = Some(Err("status", fmt_debug(b)))
    /\ pc' = "returned"
    /\ UNCHANGED <<client, history, sender, msg, msgParams, params, url, auth,
                   attempts, statusChecked, status>>

Next ==
    \/ \E d \in Domains, k \in ApiKeys : New(d, k)
    \/ \E z \in Zones : SetZone(z)
    \/ \E s \in Senders, m \in SendMessages : Send(s, m)
    \/ TransportError
    \/ \E st \in Statuses : Response(st)
    \/ BodyError
    \/ \E b \in Bodies : JsonBody(b)
    \/ \E b \in ErrorBodies : TextBody(b)

Spec == Init /\ [][Next]_vars

\* ---------------------------------------------- Message::params on its own
InitParams ==
    /\ client = Mailgun_new(<<"d">>, <<"k">>)
    /\ history = [domain |-> <<"d">>, api_key |-> <<"k">>, zones |-> <<>>]
    /\ pc = "params"
    /\ msg \in {Some(m) : m \in ParamMessages}
    /\ sender = None /\ msgParams = None /\ params = None
    /\ url = None /\ auth = None /\ attempts = 0 /\ statusChecked = FALSE
    /\ status = None /\ body = None /\ result = None

\* msg.params()
Params ==
    /\ pc = "params"
    /\ \E p \in message_params(msg[1]) : msgParams' = Some(p)
    /\ pc' = "params_done"
    /\ UNCHANGED <<client, history, sender, msg, params, url, auth, attempts,
                   statusChecked, status, body, result>>

NextParams == Params

SpecParams == InitParams /\ [][NextParams]_vars

\* ================================================================== claims
\* the text the specification gives for an address: 'name <address>' when it
\* has a display name, the bare address otherwise
Rendering(e) ==
    IF Len(e.name) = 1 THEN e.name[1] \o <<" ", "<">> \o e.address \o <<">">>
    ELSE e.address

\* where the i-th rendering starts in a comma-joined value (0-based offset)
RECURSIVE Offset(_, _)
Offset(addrs, i) ==
    IF i = 1 THEN 0 ELSE Offset(addrs, i - 1) + Len(Rendering(addrs[i - 1])) + 1

\* v is the renderings of addrs, in order, with exactly one comma between
\* neighbours and nothing else
IsCommaJoined(v, addrs) ==
    LET n == Len(addrs)
    IN  /\ Len(v) = Offset(addrs, n) + Len(Rendering(addrs[n]))
        /\ \A i \in 1..n :
              SubSeq(v, Offset(addrs, i) + 1,
                        Offset(addrs, i) + Len(Rendering(addrs[i]))) = Rendering(addrs[i])
        /\ \A i \in 2..n : v[Offset(addrs, i)] = ","

RoleOk(p, key, addrs) ==
    IF addrs = <<>> THEN key \notin DOMAIN p
    ELSE key \in DOMAIN p /\ IsCommaJoined(p[key], addrs)

\* text is a JSON object whose members are exactly the entries of the
\* string map m
ReadsBackAsStringMap(val, m) ==
    /\ val.t = "obj"
    /\ Len(val.v) = Cardinality(DOMAIN m)
    /\ {val.v[i].k : i \in 1..Len(val.v)} = DOMAIN m
    /\ \A i \in 1..Len(val.v) :
          val.v[i].val.t = "str" /\ val.v[i].val.v = m[val.v[i].k]

ReadsBackAsNestedMap(val, m) ==
    /\ val.t = "obj"
    /\ Len(val.v) = Cardinality(DOMAIN m)
    /\ {val.v[i].k : i \in 1..Len(val.v)} = DOMAIN m
    /\ \A i \in 1..Len(val.v) : ReadsBackAsStringMap(val.v[i].val, m[val.v[i].k])

ParamsDone == pc = "params_done"

TemplateKeys == {"template", "h:X-Mailgun-Variables", "h:X-Mailgun-Recipient-Variables"}

\* C4: a message whose template is empty yields none of the keys template,
\* h:X-Mailgun-Variables, h:X-Mailgun-Recipient-Variables, whatever its
\* template_vars and recipient_vars hold.
C4_NoTemplateKeys ==
    (ParamsDone /\ msg[1].template = <<>>)
        => (DOMAIN msgParams[1]) \cap TemplateKeys = {}

C4_Witness ==
    /\ ParamsDone
    /\ msg[1].template = <<>>
    /\ Cardinality(DOMAIN msg[1].template_vars) = 2
    /\ DOMAIN msg[1].recipient_vars # {}

\* C5: for each of to, cc, bcc on its own: an empty role has no key; a
\* non-empty role's value is its addresses' renderings in order, joined by
\* one comma and no space.
C5_Recipients ==
    ParamsDone =>
        /\ RoleOk(msgParams[1], "to", msg[1].to)
        /\ RoleOk(msgParams[1], "cc", msg[1].cc)
        /\ RoleOk(msgParams[1], "bcc", msg[1].bcc)

C5_Witness ==
    /\ ParamsDone
    /\ msg[1].to = <<A2, A1>>
    /\ msg[1].cc = <<>>
    /\ msg[1].bcc = <<A1, A1>>
    /\ msgParams[1]["to"] = <<"N", " ", "<", "b", "@", "x", ">", ",", "a", "@", "x">>

\* C8: with a non-empty template, the key template holds the template name,
\* each variable header is present exactly when its map is non-empty, and
\* each present header reads back as JSON to exactly its map.
C8_TemplateRoundTrip ==
    (ParamsDone /\ msg[1].template # <<>>) =>
        LET p == msgParams[1]
            m == msg[1]
        IN  /\ "template" \in DOMAIN p /\ p["template"] = m.template
            /\ ("h:X-Mailgun-Variables" \in DOMAIN p) <=> (DOMAIN m.template_vars # {})
            /\ ("h:X-Mailgun-Recipient-Variables" \in DOMAIN p)
                  <=> (DOMAIN m.recipient_vars # {})
            /\ "h:X-Mailgun-Variables" \in DOMAIN p =>
                  LET r == from_slice(p["h:X-Mailgun-Variables"])
                  IN  r.ok /\ ReadsBackAsStringMap(r.val, m.template_vars)
            /\ "h:X-Mailgun-Recipient-Variables" \in DOMAIN p =>
                  LET r == from_slice(p["h:X-Mailgun-Recipient-Variables"])
                  IN  r.ok /\ ReadsBackAsNestedMap(r.val, m.recipient_vars)

C8_Witness ==
    /\ ParamsDone
    /\ msg[1].template # <<>>
    /\ DOMAIN msg[1].template_vars = {<<DQ>>, <<"b", BS>>}
    /\ msg[1].template_vars[<<DQ>>] = <<BS>>
    /\ Cardinality(DOMAIN msg[1].recipient_vars) = 2
    /\ "h:X-Mailgun-Variables" \in DOMAIN msgParams[1]
    /\ "h:X-Mailgun-Recipient-Variables" \in DOMAIN msgParams[1]

\* C9: the keys subject, text and html are always present and equal the
\* message's fields, the empty string included.
C9_ContentKeys ==
    ParamsDone =>
        /\ {"subject", "text", "html"} \subseteq DOMAIN msgParams[1]
        /\ msgParams[1]["subject"] = msg[1].subject
        /\ msgParams[1]["text"] = msg[1].text
        /\ msgParams[1]["html"] = msg[1].html

C9_Witness ==
    /\ ParamsDone
    /\ msg[1].subject = <<>>
    /\ msg[1].text = <<>>
    /\ msg[1].html = <<"s">>
    /\ msgParams[1]["subject"] = <<>>

Returned == pc = "returned"

\* C1: a send whose exchange completed with a non-2xx status returns an error
\* whose text is the response body, character for character.
C1_RawBodyError ==
    (Returned /\ status # None /\ body # None /\ ~is_success(status[1]))
        => (result[1].tag = "Err" /\ result[1].text = body[1])

\* the text is a JSON object with a string member message and a string
\* member id
IsMessageIdObject(text) ==
    LET r == from_slice(text)
    IN  /\ r.ok
        /\ r.val.t = "obj"
        /\ \E i \in 1..Len(r.val.v) : r.val.v[i].k = K_message /\ r.val.v[i].val.t = "str"
        /\ \E i \in 1..Len(r.val.v) : r.val.v[i].k = K_id /\ r.val.v[i].val.t = "str"

\* C2: send succeeds if and only if the transport succeeded, the status is
\* 2xx and the body is a JSON object with string fields message and id, and
\* the success value carries those two values.
C2_SuccessIff ==
    Returned =>
        /\ (result[1].tag = "Ok")
              <=> (/\ status # None /\ body # None
                   /\ is_success(status[1])
                   /\ IsMessageIdObject(body[1]))
        /\ result[1].tag = "Ok" =>
              LET v == from_slice(body[1]).val.v
              IN  /\ \E i \in 1..Len(v) : v[i].k = K_message /\ v[i].val.v = result[1].message
                  /\ \E i \in 1..Len(v) : v[i].k = K_id /\ v[i].val.v = result[1].id

\* C3: the submitted parameters have from equal to the rendered sender, and
\* every other pair is exactly the one msg.params() produced.
C3_FromOnly ==
    params # None =>
        LET p  == params[1]
            mp == msgParams[1]
        IN  /\ mp \in message_params(msg[1])
            /\ "from" \in DOMAIN p
            /\ p["from"] = Rendering(sender[1])
            /\ (DOMAIN p) \ {"from"} = (DOMAIN mp) \ {"from"}
            /\ \A k \in (DOMAIN mp) \ {"from"} : p[k] = mp[k]

C3_Witness ==
    /\ params # None
    /\ sender[1] = A2
    /\ msg[1].cc = <<A2, A1>>
    /\ Cardinality(DOMAIN params[1]) = 5

\* the base the calls made on the client ask for: the argument of the last
\* set_zone, or the default endpoint
RequestedBase ==
    IF history.zones = <<>>
    THEN <<"h", "t", "t", "p", "s", ":", "/", "/", "a", "p", "i", ".", "m", "a", "i", "l",
           "g", "u", "n", ".", "n", "e", "t", "/", "v", "3">>
    ELSE history.zones[Len(history.zones)]

\* C6: after any set_zone calls, the request URL is base/domain/messages with
\* base the last set_zone argument or the default; set_zone leaves domain and
\* api_key as Mailgun::new set them.
C6_ZoneUrl ==
    /\ client.domain = history.domain
    /\ client.api_key = history.api_key
    /\ url # None =>
          url[1] = RequestedBase \o <<"/">> \o history.domain
                      \o <<"/", "m", "e", "s", "s", "a", "g", "e", "s">>

C6_Witness ==
    /\ url # None
    /\ Len(history.zones) = 2
    /\ history.zones[1] # history.zones[2]

TransportLevel(r) == r.tag = "Err" /\ r.source \in {"transport", "body"}

\* C7 as stated: one attempt per send, and every transport-level failure is
\* returned before any status check or reading of the body.
C7_OneAttemptFailFirst ==
    /\ attempts <= 1
    /\ Returned =>
          /\ attempts = 1
          /\ TransportLevel(result[1]) => (~statusChecked /\ body = None)

\* C7 amended: one attempt per send; a failure of the request itself is
\* returned before any status check; a failure while reading the body is
\* returned after the status check, and the body is not interpreted.
C7_OneAttempt ==
    /\ attempts <= 1
    /\ Returned =>
          /\ attempts = 1
          /\ (result[1].tag = "Err" /\ result[1].source = "transport")
                => (~statusChecked /\ status = None /\ body = None)
          /\ (result[1].tag = "Err" /\ result[1].source = "body")
                => (statusChecked /\ body = None)
          /\ body # None => statusChecked

C7_Witness ==
    /\ Returned
    /\ attempts = 1
    /\ result[1].source = "body"
    /\ status = Some(400)

\* C10: a send leaves the client valid for further sends, with its
\* configuration as it was.
C10_ClientReusable ==
    sender # None =>
        /\ ~client.moved
        /\ client.domain = history.domain
        /\ client.api_key = history.api_key
====
